---------------------------- MODULE Spec2Model ----------------------------
(***************************************************************************)
(* LNA Permissions Explorer: the browser-capability classifier             *)
(* (lib/browser-detection.ts), the permission status reader and the        *)
(* outbound request (lib/lna-permissions.ts), and the two React hooks that *)
(* own the page's state (hooks/useLNAPermission.ts, hooks/useLNAFetch.ts), *)
(* and the request form that pages/Home.tsx wires to the fetch hook        *)
(* (components/RequestForm.tsx).                                           *)
(*                                                                         *)
(* JavaScript strings that the code inspects (a browser name, a version)   *)
(* are sequences of one-character strings, so that includes() and          *)
(* parseInt() are computed; strings the code only builds (reasons,         *)
(* messages) are TLA+ strings built with \o.                               *)
(***************************************************************************)
EXTENDS Integers, Sequences, FiniteSets, TLC

VARIABLES
    ua,                 \* UAParser().getBrowser(): [name, version]; <<>> is undefined/''
    support,            \* <<>> or <<the value checkLikelySupport returned>>
    browserInfo,        \* <<>> or <<the value getBrowserInfo returned>>
    isSecureContext,    \* window.isSecureContext
    hasPermissions,     \* navigator.permissions && navigator.permissions.query
    mounted,            \* useLNAPermission's effect has run
    permissionStatus,   \* useLNAPermission: <<>> is null, <<s>> a snapshot
    isLoading,          \* useLNAPermission
    queries,            \* the refresh() calls that have not finished yet
    response,           \* useLNAFetch: the FetchResponse
    requests,           \* the sendRequest() calls that have not finished yet
    promises,           \* how the promises refresh() and sendRequest() returned have settled
    url,                \* RequestForm: the text of the URL input
    addressSpace        \* RequestForm: the selected address space

classifierVars == <<support, browserInfo>>
hostVars == <<ua, isSecureContext, hasPermissions>>
permissionVars == <<mounted, permissionStatus, isLoading, queries>>
fetchVars == <<response, requests>>
formVars == <<url, addressSpace>>

vars == <<ua, support, browserInfo, isSecureContext, hasPermissions,
          mounted, permissionStatus, isLoading, queries, response, requests,
          promises, url, addressSpace>>

(***************************************************************************)
(* Bounds                                                                  *)
(***************************************************************************)
MaxVersionLen == 3
MaxRefresh == 2         \* refresh() calls running at once
MaxInFlight == 2        \* sendRequest() calls running at once

(***************************************************************************)
(* Strings as character sequences                                          *)
(***************************************************************************)
RECURSIVE Str(_)
\* the JavaScript string with these characters, as a TLA+ string
Str(s) == IF s = <<>> THEN "" ELSE Head(s) \o Str(Tail(s))

\* String.prototype.includes: some window of s equals sub
Includes(s, sub) ==
    \E i \in 0..(Len(s) - Len(sub)) : SubSeq(s, i + 1, i + Len(sub)) = sub

Digits == {"0", "1", "2", "3", "4", "5", "6", "7", "8", "9"}

DigitValue(c) ==
    CASE c = "0" -> 0 [] c = "1" -> 1 [] c = "2" -> 2 [] c = "3" -> 3
      [] c = "4" -> 4 [] c = "5" -> 5 [] c = "6" -> 6 [] c = "7" -> 7
      [] c = "8" -> 8 [] c = "9" -> 9

\* A JavaScript number that may be NaN: <<>> is NaN, <<n>> is the integer n.
NaN == <<>>

\* `${versionNumber}`
NumberToString(v) == IF v = NaN THEN "NaN" ELSE ToString(v[1])

\* versionNumber >= k: every comparison with NaN is false
GreaterEq(v, k) == v # NaN /\ v[1] >= k

RECURSIVE TrimStart(_)
TrimStart(s) == IF s # <<>> /\ Head(s) = " " THEN TrimStart(Tail(s)) ELSE s

RECURSIVE LeadingDigits(_)
LeadingDigits(s) ==
    IF s # <<>> /\ Head(s) \in Digits
    THEN <<Head(s)>> \o LeadingDigits(Tail(s))
    ELSE <<>>

RECURSIVE DecimalValue(_, _)
DecimalValue(ds, acc) ==
    IF ds = <<>> THEN acc
    ELSE DecimalValue(Tail(ds), 10 * acc + DigitValue(Head(ds)))

\* parseInt(string, 10): leading white space is skipped, one sign is read,
\* the longest run of decimal digits is the value, no digit at all is NaN.
parseInt(string) ==
    LET t == TrimStart(string)
        negative == t # <<>> /\ Head(t) = "-"
        signed == t # <<>> /\ Head(t) \in {"-", "+"}
        ds == LeadingDigits(IF signed THEN Tail(t) ELSE t)
    IN  IF ds = <<>> THEN NaN
        ELSE <<(IF negative THEN -1 ELSE 1) * DecimalValue(ds, 0)>>

(***************************************************************************)
(* lib/browser-detection.ts                                                *)
(***************************************************************************)
Chrome == <<"C", "h", "r", "o", "m", "e">>
Chromium == <<"C", "h", "r", "o", "m", "i", "u", "m">>
Edge == <<"E", "d", "g", "e">>
Edg == <<"E", "d", "g">>
Firefox == <<"F", "i", "r", "e", "f", "o", "x">>
Safari == <<"S", "a", "f", "a", "r", "i">>
Opera == <<"O", "p", "e", "r", "a">>
Unknown == <<"U", "n", "k", "n", "o", "w", "n">>

V141 == <<"1", "4", "1">>
V142 == <<"1", "4", "2">>
V143 == <<"1", "4", "3">>

\* off by one: > 142 in place of >= 142
ChromeMinVersionOffByOne == 142 + 1

ChromeMinVersion == 142
EdgeMinVersion == 143

isChromeName(browserName) ==
    Includes(browserName, Chrome) \/ Includes(browserName, Chromium)

isEdgeName(browserName) ==
    Includes(browserName, Edge) \/ Includes(browserName, Edg)

chromeVerdict(versionNumber) ==
    IF GreaterEq(versionNumber, ChromeMinVersion)
    THEN [isLikelySupported |-> TRUE,
          supportReason |-> "Chrome " \o NumberToString(versionNumber)
                                \o "+ supports LNA"]
    ELSE [isLikelySupported |-> FALSE,
          supportReason |-> "Chrome " \o NumberToString(versionNumber)
                                \o " detected. LNA requires Chrome 142+"]

edgeVerdict(versionNumber) ==
    IF GreaterEq(versionNumber, EdgeMinVersion)
    THEN [isLikelySupported |-> TRUE,
          supportReason |-> "Edge " \o NumberToString(versionNumber)
                                \o "+ supports LNA"]
    ELSE [isLikelySupported |-> FALSE,
          supportReason |-> "Edge " \o NumberToString(versionNumber)
                                \o " detected. LNA requires Edge 143+"]

firefoxVerdict ==
    [isLikelySupported |-> FALSE,
     supportReason |-> "Firefox support is in prototyping stage"]

safariVerdict ==
    [isLikelySupported |-> FALSE,
     supportReason |-> "Safari does not support LNA"]

\* the generic reason without the browser's name
unknownVerdictNameless(browserName) ==
    [isLikelySupported |-> FALSE,
     supportReason |-> " support unknown. Try Chrome 142+ or Edge 143+"]

unknownVerdict(browserName) ==
    [isLikelySupported |-> FALSE,
     supportReason |-> Str(browserName)
                           \o " support unknown. Try Chrome 142+ or Edge 143+"]

\* the Edge keywords tested before the Chrome keywords
checkLikelySupportEdgeFirst(browserName, browserVersion) ==
    LET versionNumber == parseInt(browserVersion)
    IN  IF isEdgeName(browserName) THEN edgeVerdict(versionNumber)
        ELSE IF isChromeName(browserName) THEN chromeVerdict(versionNumber)
        ELSE IF Includes(browserName, Firefox) THEN firefoxVerdict
        ELSE IF Includes(browserName, Safari) THEN safariVerdict
        ELSE unknownVerdict(browserName)

checkLikelySupport(browserName, browserVersion) ==
    LET versionNumber == parseInt(browserVersion)
    IN  IF isChromeName(browserName) THEN chromeVerdict(versionNumber)
        ELSE IF isEdgeName(browserName) THEN edgeVerdict(versionNumber)
        ELSE IF Includes(browserName, Firefox) THEN firefoxVerdict
        ELSE IF Includes(browserName, Safari) THEN safariVerdict
        ELSE unknownVerdict(browserName)

\* browser.name || 'Unknown', browser.version || '0': undefined and '' are
\* both falsy, and both are the empty sequence here.
getBrowserInfo(browser) ==
    LET browserName == IF browser.name = <<>> THEN Unknown ELSE browser.name
        browserVersion == IF browser.version = <<>> THEN <<"0">>
                          ELSE browser.version
        verdict == checkLikelySupport(browserName, browserVersion)
    IN  [name |-> browserName,
         version |-> browserVersion,
         isLikelySupported |-> verdict.isLikelySupported,
         supportReason |-> verdict.supportReason]

(***************************************************************************)
(* lib/lna-permissions.ts: queryLNAPermission                              *)
(***************************************************************************)
\* obj.k = v on a JavaScript object: the field is added or overwritten
SetField(obj, k, v) == (k :> v) @@ obj

PermissionStates == {"granted", "prompt", "denied"}

\* How a call of an async function ends: its promise is fulfilled with a
\* value (return) or rejected with an error (throw).
Return(value) == [outcome |-> "return", value |-> value]
Throw(error) == [outcome |-> "throw", error |-> error]

\* lines 8-15 without the reason of an insecure context
newBrowserSupportNoHttpsReason(info, secure) ==
    [isSupported |-> TRUE, browserInfo |-> info]

\* lines 5-15: the BrowserSupport object before the capability is looked at
newBrowserSupport(info, secure) ==
    LET browserSupport == [isSupported |-> TRUE, browserInfo |-> info]
    IN  IF ~secure
        THEN SetField(browserSupport, "reason",
                      "HTTPS required (not in secure context)")
        ELSE browserSupport

\* the reason set for an insecure context is kept when one is there
permissionsUnavailableKeepsReason(browserSupport, secure) ==
    Return([state |-> "denied",
            isSecureContext |-> secure,
            browserSupport |->
                IF "reason" \in DOMAIN browserSupport
                THEN SetField(browserSupport, "isSupported", FALSE)
                ELSE SetField(SetField(browserSupport, "isSupported", FALSE),
                              "reason", "Permissions API not available")])

\* lines 17-25: navigator.permissions or its query is missing
permissionsUnavailable(browserSupport, secure) ==
    Return([state |-> "denied",
            isSecureContext |-> secure,
            browserSupport |->
                SetField(SetField(browserSupport, "isSupported", FALSE),
                         "reason", "Permissions API not available")])

\* anything but "granted" reported as "denied"
permissionQueriedGrantedOrDenied(browserSupport, secure, state) ==
    Return([state |-> IF state = "granted" THEN "granted" ELSE "denied",
            isSecureContext |-> secure,
            browserSupport |-> browserSupport])

\* lines 28-36: the query resolved with a PermissionStatus
permissionQueried(browserSupport, secure, state) ==
    Return([state |-> state,
            isSecureContext |-> secure,
            browserSupport |-> browserSupport])

\* no catch block: the rejection leaves queryLNAPermission
permissionNotRecognizedUncaught(browserSupport, secure) ==
    Throw("NotSupportedError")

\* lines 37-46: the query rejected, and the catch block returns
permissionNotRecognized(browserSupport, secure) ==
    Return([state |-> "denied",
            isSecureContext |-> secure,
            browserSupport |->
                SetField(SetField(browserSupport, "isSupported", FALSE),
                         "reason",
                         "local-network-access permission not recognized by browser")])

(***************************************************************************)
(* hooks/useLNAPermission.ts                                               *)
(*                                                                         *)
(* A refresh() call is a frame of `queries`.  pc = "query": suspended at   *)
(* `await navigator.permissions.query(...)` inside queryLNAPermission.     *)
(* pc = "resume": queryLNAPermission has ended with `completion` and the   *)
(* rest of refresh is a queued microtask; `settled` tells how the host     *)
(* answered ("absent": it was never asked).  Microtasks run before any     *)
(* other event.                                                            *)
(***************************************************************************)
NoMicrotask ==
    /\ \A i \in 1..Len(queries) : queries[i].pc # "resume"
    /\ \A i \in 1..Len(requests) : requests[i].pc # "resume"

Remove(seq, i) == SubSeq(seq, 1, i - 1) \o SubSeq(seq, i + 1, Len(seq))

\* refresh(), up to its first suspension
refresh ==
    LET secure == isSecureContext
        browserSupport == newBrowserSupport(getBrowserInfo(ua), secure)
        frame ==
            IF ~hasPermissions
            THEN [pc |-> "resume", settled |-> "absent", calls |-> 0,
                  completion |->
                      permissionsUnavailable(browserSupport, secure)]
            ELSE [pc |-> "query", calls |-> 1, isSecureContext |-> secure,
                  browserSupport |-> browserSupport]
    IN  /\ Len(queries) < MaxRefresh
        /\ isLoading' = TRUE
        /\ queries' = Append(queries, frame)
        /\ UNCHANGED <<permissionStatus, promises>>

\* useEffect(() => { refresh() }, [refresh])
Mount ==
    /\ ~mounted
    /\ mounted' = TRUE
    /\ refresh
    /\ UNCHANGED <<hostVars, classifierVars, fetchVars, formVars>>

\* the caller of the hook invokes refresh (the panel's Refresh button)
Refresh ==
    /\ mounted
    /\ NoMicrotask
    /\ refresh
    /\ UNCHANGED <<mounted, hostVars, classifierVars, fetchVars, formVars>>

\* the host resolves navigator.permissions.query with a state
PermissionQueryFulfilled ==
    \E i \in 1..Len(queries), state \in PermissionStates :
        /\ NoMicrotask
        /\ queries[i].pc = "query"
        /\ queries' = [queries EXCEPT ![i] =
               [pc |-> "resume", settled |-> "fulfilled", state |-> state,
                calls |-> queries[i].calls,
                completion |->
                    permissionQueried(queries[i].browserSupport,
                                      queries[i].isSecureContext, state)]]
        /\ UNCHANGED <<mounted, permissionStatus, isLoading, promises,
                       hostVars, classifierVars, fetchVars, formVars>>

\* the host rejects navigator.permissions.query
PermissionQueryRejected ==
    \E i \in 1..Len(queries) :
        /\ NoMicrotask
        /\ queries[i].pc = "query"
        /\ queries' = [queries EXCEPT ![i] =
               [pc |-> "resume", settled |-> "rejected",
                calls |-> queries[i].calls,
                completion |->
                    permissionNotRecognized(queries[i].browserSupport,
                                            queries[i].isSecureContext)]]
        /\ UNCHANGED <<mounted, permissionStatus, isLoading, promises,
                       hostVars, classifierVars, fetchVars, formVars>>

\* How the promise refresh() returned settles: the try block ends, or the
\* catch block takes whatever queryLNAPermission threw; neither block nor
\* the finally block throws.
refreshSettles(completion) ==
    IF completion.outcome = "return" THEN "fulfilled" ELSE "fulfilled"

\* the rest of refresh, were the request outcome reset with it
RefreshResumeClearsResponse ==
    \E i \in 1..Len(queries) :
        /\ queries[i].pc = "resume"
        /\ permissionStatus' =
               IF queries[i].completion.outcome = "return"
               THEN <<queries[i].completion.value>>
               ELSE <<>>
        /\ isLoading' = FALSE
        /\ queries' = Remove(queries, i)
        /\ promises' = promises \cup
               {<<"refresh", refreshSettles(queries[i].completion)>>}
        /\ response' = [status |-> "idle"]
        /\ UNCHANGED <<requests, mounted, hostVars, classifierVars, formVars>>

\* the rest of refresh: try { setPermissionStatus(status) }
\* catch { setPermissionStatus(null) } finally { setIsLoading(false) }
RefreshResume ==
    \E i \in 1..Len(queries) :
        /\ queries[i].pc = "resume"
        /\ permissionStatus' =
               IF queries[i].completion.outcome = "return"
               THEN <<queries[i].completion.value>>
               ELSE <<>>
        /\ isLoading' = FALSE
        /\ queries' = Remove(queries, i)
        /\ promises' = promises \cup
               {<<"refresh", refreshSettles(queries[i].completion)>>}
        /\ UNCHANGED <<mounted, hostVars, classifierVars, fetchVars, formVars>>

(***************************************************************************)
(* The host's fetch: what a Response exposes to makeLocalNetworkRequest    *)
(***************************************************************************)
UpperCase ==
    <<"A", "B", "C", "D", "E", "F", "G", "H", "I", "J", "K", "L", "M", "N",
      "O", "P", "Q", "R", "S", "T", "U", "V", "W", "X", "Y", "Z">>

LowerCase ==
    <<"a", "b", "c", "d", "e", "f", "g", "h", "i", "j", "k", "l", "m", "n",
      "o", "p", "q", "r", "s", "t", "u", "v", "w", "x", "y", "z">>

\* String.prototype.toLowerCase
toLowerCase(s) ==
    [i \in 1..Len(s) |->
        IF \E k \in 1..Len(UpperCase) : UpperCase[k] = s[i]
        THEN LowerCase[CHOOSE k \in 1..Len(UpperCase) : UpperCase[k] = s[i]]
        ELSE s[i]]

PrivateNetwork ==
    <<"p", "r", "i", "v", "a", "t", "e", "-", "n", "e", "t", "w", "o",
      "r", "k">>

AccessControl ==
    <<"a", "c", "c", "e", "s", "s", "-", "c", "o", "n", "t", "r", "o",
      "l">>

ContentType ==
    <<"c", "o", "n", "t", "e", "n", "t", "-", "t", "y", "p", "e">>

ApplicationJson ==
    <<"a", "p", "p", "l", "i", "c", "a", "t", "i", "o", "n", "/", "j",
      "s", "o", "n">>

AccessControlAllowOrigin ==
    <<"a", "c", "c", "e", "s", "s", "-", "c", "o", "n", "t", "r", "o",
      "l", "-", "a", "l", "l", "o", "w", "-", "o", "r", "i", "g", "i",
      "n">>

XPrivateNetworkId ==
    <<"X", "-", "P", "r", "i", "v", "a", "t", "e", "-", "N", "e", "t",
      "w", "o", "r", "k", "-", "I", "D">>

ApplicationJsonUtf8 ==
    <<"a", "p", "p", "l", "i", "c", "a", "t", "i", "o", "n", "/", "j",
      "s", "o", "n", ";", " ", "c", "h", "a", "r", "s", "e", "t", "=",
      "u", "t", "f", "-", "8">>

TextPlain ==
    <<"t", "e", "x", "t", "/", "p", "l", "a", "i", "n">>

Star ==
    <<"*">>

TestServer ==
    <<"t", "e", "s", "t", "-", "s", "e", "r", "v", "e", "r">>


\* response.ok: the status is in the range 200-299
ok(r) == r.status >= 200 /\ r.status <= 299

\* response.headers.get(name): the value of the header of that name, names
\* compared without regard to case; <<>> is null
headersGet(headers, name) ==
    LET at == {i \in 1..Len(headers) : toLowerCase(headers[i][1]) = name}
    IN  IF at = {} THEN <<>>
        ELSE headers[CHOOSE i \in at : \A j \in at : i <= j][2]

\* The responses the host may produce.  headers: the pairs <<name, value>>
\* in the order response.headers.forEach visits them.  body.json tells
\* whether body.text parses as JSON.
HostResponses ==
    {[status |-> 200, statusText |-> "OK",
      headers |-> <<<<AccessControlAllowOrigin, Star>>,
                    <<ContentType, ApplicationJsonUtf8>>,
                    <<XPrivateNetworkId, TestServer>>>>,
      body |-> [text |-> "{\"message\":\"Hello\"}", json |-> TRUE]],
     [status |-> 200, statusText |-> "OK",
      headers |-> <<<<ContentType, TextPlain>>>>,
      body |-> [text |-> "hello", json |-> FALSE]],
     [status |-> 204, statusText |-> "No Content",
      headers |-> <<>>,
      body |-> [text |-> "", json |-> FALSE]],
     [status |-> 200, statusText |-> "OK",
      headers |-> <<<<ContentType, ApplicationJson>>>>,
      body |-> [text |-> "<html>", json |-> FALSE]],
     [status |-> 404, statusText |-> "Not Found",
      headers |-> <<<<AccessControlAllowOrigin, Star>>>>,
      body |-> [text |-> "missing", json |-> FALSE]],
     [status |-> 500, statusText |-> "Internal Server Error",
      headers |-> <<>>,
      body |-> [text |-> "", json |-> FALSE]]}

\* What the host's promises may reject with.  isError: instanceof Error.
\* The catch variable of sendRequest is of any type: an Error (the
\* TypeError of a failed fetch), an object that is not an Error and has a
\* message, or a value without a message (a string).
FetchErrors ==
    {[isError |-> TRUE, message |-> "Failed to fetch"],
     [isError |-> FALSE, message |-> "aborted"],
     [isError |-> FALSE]}

JsonSyntaxError == [isError |-> TRUE, message |-> "Unexpected token '<'"]
BodyStreamError == [isError |-> TRUE, message |-> "network error"]

\* the URL a caller passes; the hook hands it to fetch and never reads it
Urls == {"http://192.168.1.100:8080/api/data"}

\* what a caller may pass as the second argument; "undefined": nothing
AddressSpaceArguments ==
    {"loopback", "local", "private", "public", "unknown", "none", "undefined"}

(***************************************************************************)
(* lib/lna-permissions.ts: makeLocalNetworkRequest                         *)
(***************************************************************************)
\* lines 49-57 with every value outside the declared 'local' | 'private'
\* replaced by the default
fetchCallLocalOrPrivate(requestUrl, targetAddressSpace) ==
    [url |-> requestUrl,
     init |-> [method |-> "GET",
               targetAddressSpace |->
                   IF targetAddressSpace \in {"local", "private"}
                   THEN targetAddressSpace
                   ELSE "local"]]

\* lines 49-57: the arguments of the fetch call
fetchCall(requestUrl, targetAddressSpace) ==
    [url |-> requestUrl,
     init |-> [method |-> "GET",
               targetAddressSpace |->
                   IF targetAddressSpace = "undefined" THEN "local"
                   ELSE targetAddressSpace]]

RECURSIVE selectHeadersCaseSensitive(_)
\* lines 63-71 with the names compared as they are, not lowercased
selectHeadersCaseSensitive(headers) ==
    IF headers = <<>> THEN <<>>
    ELSE LET key == Head(headers)[1]
             value == Head(headers)[2]
             rest == selectHeadersCaseSensitive(Tail(headers))
         IN  IF \/ Includes(key, PrivateNetwork)
                \/ Includes(key, AccessControl)
             THEN <<<<Str(key), Str(value)>>>> \o rest
             ELSE rest

RECURSIVE selectHeaders(_)
\* lines 63-71: the headers kept, in iteration order
selectHeaders(headers) ==
    IF headers = <<>> THEN <<>>
    ELSE LET key == Head(headers)[1]
             value == Head(headers)[2]
             rest == selectHeaders(Tail(headers))
         IN  IF \/ Includes(toLowerCase(key), PrivateNetwork)
                \/ Includes(toLowerCase(key), AccessControl)
             THEN <<<<Str(key), Str(value)>>>> \o rest
             ELSE rest

\* lines 73-80 with the content type compared for equality
bodyDecoderExactMatch(r) ==
    LET contentType == headersGet(r.headers, ContentType)
    IN  IF contentType # <<>> /\ contentType = ApplicationJson
        THEN "json"
        ELSE "text"

\* lines 73-80: which decoder reads the body
bodyDecoder(r) ==
    LET contentType == headersGet(r.headers, ContentType)
    IN  IF contentType # <<>> /\ Includes(contentType, ApplicationJson)
        THEN "json"
        ELSE "text"

\* lines 59-80 with the status text left out of the message
afterFetchStatusOnly(r) ==
    IF ~ok(r)
    THEN [pc |-> "resume", fetched |-> <<r>>,
          completion |-> Throw([isError |-> TRUE,
                                message |-> "HTTP " \o ToString(r.status)])]
    ELSE [pc |-> bodyDecoder(r), fetched |-> <<r>>,
          headers |-> selectHeaders(r.headers)]

\* lines 59-80: from the fetched response to the next suspension, or the throw
afterFetch(r) ==
    IF ~ok(r)
    THEN [pc |-> "resume", fetched |-> <<r>>,
          completion |-> Throw([isError |-> TRUE,
                                message |-> "HTTP " \o ToString(r.status)
                                                \o ": " \o r.statusText])]
    ELSE [pc |-> bodyDecoder(r), fetched |-> <<r>>,
          headers |-> selectHeaders(r.headers)]

\* lines 77-82: the decoded body is the data
afterBody(frame) ==
    [pc |-> "resume", fetched |-> frame.fetched,
     completion |-> Return([data |-> [decoded |-> frame.pc,
                                      text |-> frame.fetched[1].body.text],
                            headers |-> frame.headers])]

(***************************************************************************)
(* hooks/useLNAFetch.ts                                                    *)
(*                                                                         *)
(* A sendRequest() call is a frame of `requests`.  pc = "fetch": suspended *)
(* at `await fetch(...)`; pc = "json" / "text": suspended at               *)
(* `await response.json()` / `await response.text()`; pc = "resume":       *)
(* makeLocalNetworkRequest has ended with `completion` and the rest of     *)
(* sendRequest is a queued microtask.                                      *)
(***************************************************************************)
\* sendRequest that sets the status and leaves the payload in place
sendRequestKeepsPayload(requestUrl, targetAddressSpace) ==
    /\ Len(requests) < MaxInFlight
    /\ response' = [response EXCEPT !.status = "loading"]
    /\ requests' = Append(requests,
           [pc |-> "fetch",
            args |-> <<requestUrl, targetAddressSpace>>,
            calls |-> 1,
            call |-> fetchCall(requestUrl, targetAddressSpace)])
    /\ UNCHANGED promises

\* sendRequest(requestUrl, targetAddressSpace), up to its first suspension.
\* The frame keeps the arguments as they were passed (`args`) and the
\* number of fetch calls this invocation has issued (`calls`).
sendRequest(requestUrl, targetAddressSpace) ==
    /\ Len(requests) < MaxInFlight
    /\ response' = [status |-> "loading"]
    /\ requests' = Append(requests,
           [pc |-> "fetch",
            args |-> <<requestUrl, targetAddressSpace>>,
            calls |-> 1,
            call |-> fetchCall(requestUrl, targetAddressSpace)])
    /\ UNCHANGED promises

\* clear() that resets the status and leaves the payload in place
clearKeepsPayload ==
    /\ response' = [response EXCEPT !.status = "idle"]
    /\ UNCHANGED <<requests, promises>>

\* clear()
clear ==
    /\ response' = [status |-> "idle"]
    /\ UNCHANGED <<requests, promises>>

\* what a frame keeps over every suspension of its call; the arguments are
\* not used again once fetch has been called
sameCall(frame) == [calls |-> frame.calls]

\* a caller of the hook invokes sendRequest
SendRequest ==
    \E requestUrl \in Urls, targetAddressSpace \in AddressSpaceArguments :
        /\ NoMicrotask
        /\ sendRequest(requestUrl, targetAddressSpace)
        /\ UNCHANGED <<hostVars, classifierVars, permissionVars, formVars>>

\* a caller of the hook invokes clear
Clear ==
    /\ NoMicrotask
    /\ clear
    /\ UNCHANGED <<hostVars, classifierVars, permissionVars, formVars>>

\* the host fulfils the fetch promise with a Response
FetchFulfilled ==
    \E i \in 1..Len(requests), r \in HostResponses :
        /\ NoMicrotask
        /\ requests[i].pc = "fetch"
        /\ requests' = [requests EXCEPT ![i] =
               afterFetch(r) @@ sameCall(requests[i])]
        /\ UNCHANGED <<response, promises, hostVars, classifierVars,
                       permissionVars, formVars>>

\* the host rejects the fetch promise, were the fetch issued once more
\* after its first rejection
FetchRejectedRetries ==
    \E i \in 1..Len(requests), error \in FetchErrors :
        /\ NoMicrotask
        /\ requests[i].pc = "fetch"
        /\ requests' = [requests EXCEPT ![i] =
               IF requests[i].calls < 2
               THEN [requests[i] EXCEPT !.calls = @ + 1]
               ELSE [pc |-> "resume", fetched |-> <<>>,
                     completion |-> Throw(error)] @@ sameCall(requests[i])]
        /\ UNCHANGED <<response, promises, hostVars, classifierVars,
                       permissionVars, formVars>>

\* the host rejects the fetch promise
FetchRejected ==
    \E i \in 1..Len(requests), error \in FetchErrors :
        /\ NoMicrotask
        /\ requests[i].pc = "fetch"
        /\ requests' = [requests EXCEPT ![i] =
               [pc |-> "resume", fetched |-> <<>>, completion |-> Throw(error)]
                   @@ sameCall(requests[i])]
        /\ UNCHANGED <<response, promises, hostVars, classifierVars,
                       permissionVars, formVars>>

\* the host fulfils response.json() or response.text()
BodyFulfilled ==
    \E i \in 1..Len(requests) :
        /\ NoMicrotask
        /\ requests[i].pc \in {"json", "text"}
        /\ requests[i].pc = "json" => requests[i].fetched[1].body.json
        /\ requests' = [requests EXCEPT ![i] =
               afterBody(requests[i]) @@ sameCall(requests[i])]
        /\ UNCHANGED <<response, promises, hostVars, classifierVars,
                       permissionVars, formVars>>

\* the host rejects response.json() or response.text(): the body is not
\* JSON, or the body stream failed
BodyRejected ==
    \E i \in 1..Len(requests), error \in {JsonSyntaxError, BodyStreamError} :
        /\ NoMicrotask
        /\ requests[i].pc \in {"json", "text"}
        /\ error = JsonSyntaxError =>
               requests[i].pc = "json" /\ ~requests[i].fetched[1].body.json
        /\ requests' = [requests EXCEPT ![i] =
               [pc |-> "resume", fetched |-> requests[i].fetched,
                completion |-> Throw(error)] @@ sameCall(requests[i])]
        /\ UNCHANGED <<response, promises, hostVars, classifierVars,
                       permissionVars, formVars>>

\* lines 14-25 with a catch block that leaves the outcome as it is set at
\* line 10
settledResponseErrorsDropped(completion) ==
    IF completion.outcome = "return"
    THEN [status |-> "success",
          data |-> completion.value.data,
          headers |-> completion.value.headers]
    ELSE [status |-> "loading"]

\* lines 14-18 and 19-25: the response set when makeLocalNetworkRequest ends
settledResponse(completion) ==
    IF completion.outcome = "return"
    THEN [status |-> "success",
          data |-> completion.value.data,
          headers |-> completion.value.headers]
    ELSE [status |-> "error",
          error |-> IF completion.error.isError
                    THEN completion.error.message
                    ELSE "Unknown error occurred"]

\* sendRequest() without its catch block
sendRequestSettlesUncaught(completion) ==
    IF completion.outcome = "return" THEN "fulfilled" ELSE "rejected"

\* How the promise sendRequest() returned settles: the try block ends, or
\* the catch block takes whatever makeLocalNetworkRequest threw; neither
\* block throws.
sendRequestSettles(completion) ==
    IF completion.outcome = "return" THEN "fulfilled" ELSE "fulfilled"

\* the rest of sendRequest, were the result of a call discarded when a later
\* call is still running
SendRequestResumeLatestOnly ==
    \E i \in 1..Len(requests) :
        /\ requests[i].pc = "resume"
        /\ response' = IF i = Len(requests)
                       THEN settledResponse(requests[i].completion)
                       ELSE response
        /\ requests' = Remove(requests, i)
        /\ promises' = promises \cup
               {<<"sendRequest", sendRequestSettles(requests[i].completion)>>}
        /\ UNCHANGED <<hostVars, classifierVars, permissionVars, formVars>>

\* the rest of sendRequest
SendRequestResume ==
    \E i \in 1..Len(requests) :
        /\ requests[i].pc = "resume"
        /\ response' = settledResponse(requests[i].completion)
        /\ requests' = Remove(requests, i)
        /\ promises' = promises \cup
               {<<"sendRequest", sendRequestSettles(requests[i].completion)>>}
        /\ UNCHANGED <<hostVars, classifierVars, permissionVars, formVars>>

(***************************************************************************)
(* components/RequestForm.tsx, as pages/Home.tsx wires it to useLNAFetch   *)
(***************************************************************************)
RECURSIVE TrimEnd(_)
TrimEnd(s) ==
    IF s # <<>> /\ s[Len(s)] = " " THEN TrimEnd(SubSeq(s, 1, Len(s) - 1)) ELSE s

\* String.prototype.trim
trim(s) == TrimEnd(TrimStart(s))

\* what the user may type into the URL input
UrlInputs == {<<" ">>, <<" ", "/", "a", " ">>}

\* the values of the six radio buttons
FormAddressSpaces ==
    {"loopback", "local", "private", "public", "unknown", "none"}

\* Home.tsx: isLoading={response.status === 'loading'}
formIsLoading == response.status = "loading"

\* Home.tsx: hasResponse={response.status !== 'idle'}
hasResponse == response.status # "idle"

\* the user edits the URL input, which is disabled while loading
SetUrl ==
    \E value \in UrlInputs :
        /\ NoMicrotask
        /\ ~formIsLoading
        /\ url' = value
        /\ UNCHANGED <<addressSpace, fetchVars, promises, hostVars,
                       classifierVars, permissionVars>>

\* the user picks a radio button, which is disabled while loading
SetAddressSpace ==
    \E value \in FormAddressSpaces :
        /\ NoMicrotask
        /\ ~formIsLoading
        /\ addressSpace' = value
        /\ UNCHANGED <<url, fetchVars, promises, hostVars, classifierVars,
                       permissionVars>>

\* handleSubmit, were the send button left enabled while loading
HandleSubmitWhileLoading ==
    /\ NoMicrotask
    /\ trim(url) # <<>>
    /\ sendRequest(Str(trim(url)), addressSpace)
    /\ UNCHANGED <<formVars, hostVars, classifierVars, permissionVars>>

\* handleSubmit: the form is submitted through the send button, which is
\* disabled while loading and while the trimmed URL is empty
HandleSubmit ==
    /\ NoMicrotask
    /\ ~(formIsLoading \/ trim(url) = <<>>)
    /\ trim(url) # <<>>
    /\ sendRequest(Str(trim(url)), addressSpace)
    /\ UNCHANGED <<formVars, hostVars, classifierVars, permissionVars>>

\* the clear button, rendered when there is a response and disabled while
\* loading
ClickClear ==
    /\ NoMicrotask
    /\ hasResponse
    /\ ~formIsLoading
    /\ clear
    /\ UNCHANGED <<formVars, hostVars, classifierVars, permissionVars>>

HostBrowsers ==
    {[name |-> Chrome, version |-> V142],
     [name |-> Edge, version |-> V142],
     [name |-> <<>>, version |-> <<>>]}

ClassifierIdle ==
    /\ support = <<>>
    /\ browserInfo = <<>>

PermissionInitial ==
    /\ mounted = FALSE
    /\ permissionStatus = <<>>
    /\ isLoading = TRUE
    /\ queries = <<>>

FetchInitial ==
    /\ response = [status |-> "idle"]
    /\ requests = <<>>
    /\ promises = {}

\* RequestForm's two useState calls
FormInitial ==
    /\ url = <<>>
    /\ addressSpace = "local"

InitPermission ==
    /\ ua \in HostBrowsers
    /\ isSecureContext \in BOOLEAN
    /\ hasPermissions \in BOOLEAN
    /\ ClassifierIdle
    /\ PermissionInitial
    /\ FetchInitial
    /\ FormInitial

NextPermission ==
    \/ Mount
    \/ Refresh
    \/ PermissionQueryFulfilled
    \/ PermissionQueryRejected
    \/ RefreshResume

SpecPermission == InitPermission /\ [][NextPermission]_vars

InitFetch ==
    /\ ua = [name |-> Chrome, version |-> V142]
    /\ isSecureContext = TRUE
    /\ hasPermissions = TRUE
    /\ ClassifierIdle
    /\ PermissionInitial
    /\ FetchInitial
    /\ FormInitial

NextFetch ==
    \/ SendRequest
    \/ Clear
    \/ FetchFulfilled
    \/ FetchRejected
    \/ BodyFulfilled
    \/ BodyRejected
    \/ SendRequestResume

SpecFetch == InitFetch /\ [][NextFetch]_vars

\* useLNAFetch with the request form as its only caller, as on the page
NextForm ==
    \/ SetUrl
    \/ SetAddressSpace
    \/ HandleSubmit
    \/ ClickClear
    \/ FetchFulfilled
    \/ FetchRejected
    \/ BodyFulfilled
    \/ BodyRejected
    \/ SendRequestResume

SpecForm == InitFetch /\ [][NextForm]_vars

\* SpecForm on a host whose promises settle: a pending fetch and a pending
\* body read are eventually answered, and a queued microtask runs.
SpecFormFair ==
    /\ SpecForm
    /\ WF_vars(FetchFulfilled \/ FetchRejected)
    /\ WF_vars(BodyFulfilled \/ BodyRejected)
    /\ WF_vars(SendRequestResume)

\* pages/Home.tsx: the permission hook and the request form on one page
InitHome ==
    /\ ua = [name |-> Chrome, version |-> V142]
    /\ isSecureContext \in BOOLEAN
    /\ hasPermissions \in BOOLEAN
    /\ ClassifierIdle
    /\ PermissionInitial
    /\ FetchInitial
    /\ FormInitial

NextHome == NextPermission \/ NextForm

SpecHome == InitHome /\ [][NextHome]_vars

(***************************************************************************)
(* The classifier on its own: every name and version of the bounded sets   *)
(***************************************************************************)
NameParts == {<<>>, Chrome, Chromium, Edge, Edg, Firefox, Safari, Opera}

BrowserNames == {a \o b : a \in NameParts, b \in NameParts}

VersionChars == {"1", "2", "3", "4", ".", "b", "-", " "}

RECURSIVE StringsUpTo(_, _)
StringsUpTo(chars, n) ==
    IF n = 0 THEN {<<>>}
    ELSE LET shorter == StringsUpTo(chars, n - 1)
         IN  shorter \cup {<<c>> \o s : c \in chars, s \in shorter}

VersionStrings == StringsUpTo(VersionChars, MaxVersionLen)

InitClassifier ==
    /\ ua \in [name : BrowserNames, version : VersionStrings]
    /\ isSecureContext = TRUE
    /\ hasPermissions = TRUE
    /\ ClassifierIdle
    /\ PermissionInitial
    /\ FetchInitial
    /\ FormInitial

\* checkLikelySupport is called by getBrowserInfo alone, which never passes
\* an empty name or an empty version
CallCheckLikelySupport ==
    /\ support = <<>>
    /\ ua.name # <<>>
    /\ ua.version # <<>>
    /\ support' = <<checkLikelySupport(ua.name, ua.version)>>
    /\ UNCHANGED <<browserInfo, hostVars, permissionVars, fetchVars,
                   promises, formVars>>

CallGetBrowserInfo ==
    /\ browserInfo = <<>>
    /\ browserInfo' = <<getBrowserInfo(ua)>>
    /\ UNCHANGED <<support, hostVars, permissionVars, fetchVars,
                   promises, formVars>>

NextClassifier == CallCheckLikelySupport \/ CallGetBrowserInfo

SpecClassifier == InitClassifier /\ [][NextClassifier]_vars

(***************************************************************************)
(* Claims about the classifier, under SpecClassifier                       *)
(***************************************************************************)
\* C1: checkLikelySupport returns isLikelySupported = TRUE exactly when the
\* name contains "Chrome" or "Chromium" and the parsed major version is at
\* least 142, or the name contains "Edge" or "Edg" and it is at least 143;
\* Chrome 141 is unsupported, Chrome 142 and Edge 143 are supported.
C1_SupportedIffThreshold ==
    support # <<>> =>
        LET major == parseInt(ua.version)
            chromeLike == Includes(ua.name, Chrome) \/ Includes(ua.name, Chromium)
            edgeLike == Includes(ua.name, Edge) \/ Includes(ua.name, Edg)
        IN  /\ support[1].isLikelySupported <=>
                   \/ chromeLike /\ major # NaN /\ major[1] >= 142
                   \/ edgeLike /\ major # NaN /\ major[1] >= 143
            /\ (ua.name = Chrome /\ ua.version = V141)
                   => ~support[1].isLikelySupported
            /\ (ua.name = Chrome /\ ua.version = V142)
                   => support[1].isLikelySupported
            /\ (ua.name = Edge /\ ua.version = V143)
                   => support[1].isLikelySupported

\* C1 witness: the classifier has returned "supported" for Edge 143.
C1_Witness ==
    /\ support # <<>>
    /\ ua.name = Edge
    /\ ua.version = V143
    /\ support[1].isLikelySupported

MatchesBoth(name) ==
    /\ Includes(name, Chrome) \/ Includes(name, Chromium)
    /\ Includes(name, Edge) \/ Includes(name, Edg)

\* C2 (as stated): a name matching both an Edge keyword and a Chrome
\* keyword is resolved by the Edge branch: supported iff version >= 143,
\* and the reason names Edge.
C2_EdgeBranchWins ==
    (support # <<>> /\ MatchesBoth(ua.name)) =>
        LET major == parseInt(ua.version)
        IN  /\ support[1].isLikelySupported <=> (major # NaN /\ major[1] >= 143)
            /\ support[1].supportReason \in
                   {"Edge " \o NumberToString(major) \o "+ supports LNA",
                    "Edge " \o NumberToString(major)
                        \o " detected. LNA requires Edge 143+"}

\* C2 (amended): a name matching both an Edge keyword and a Chrome keyword
\* is resolved by the Chrome branch, which is checked first: supported iff
\* version >= 142, and the reason names Chrome.
C2_ChromeBranchWins ==
    (support # <<>> /\ MatchesBoth(ua.name)) =>
        LET major == parseInt(ua.version)
        IN  /\ support[1].isLikelySupported <=> (major # NaN /\ major[1] >= 142)
            /\ support[1].supportReason \in
                   {"Chrome " \o NumberToString(major) \o "+ supports LNA",
                    "Chrome " \o NumberToString(major)
                        \o " detected. LNA requires Chrome 142+"}

\* C2 witness: a name with both keywords at version 142, where the two
\* branches disagree, has been classified.
C2_Witness ==
    /\ support # <<>>
    /\ ua.name = Edge \o Chrome
    /\ ua.version = V142

\* a version string without any decimal digit
NonNumeric(version) == \A i \in 1..Len(version) : version[i] \notin Digits

\* C3: for a non-numeric version string the classifier takes the major
\* version to be 0: the verdict is unsupported, and the version its reason
\* shows (the Chrome and Edge branches show one) is 0.
C3_NonNumericVersionIsZero ==
    (support # <<>> /\ NonNumeric(ua.version)) =>
        LET chromeLike == Includes(ua.name, Chrome) \/ Includes(ua.name, Chromium)
            edgeLike == Includes(ua.name, Edge) \/ Includes(ua.name, Edg)
        IN  /\ ~support[1].isLikelySupported
            /\ chromeLike => support[1].supportReason
                                 = "Chrome 0 detected. LNA requires Chrome 142+"
            /\ (edgeLike /\ ~chromeLike) =>
                   support[1].supportReason
                       = "Edge 0 detected. LNA requires Edge 143+"

\* C4: every input yields a verdict with a non-empty reason; a Firefox or
\* Safari name without a Chrome or Edge keyword is unsupported with its
\* fixed reason; an unrecognized name is unsupported with a reason that
\* names it and suggests Chrome 142+ or Edge 143+.
C4_TotalWithReason ==
    /\ browserInfo # <<>> =>
           /\ browserInfo[1].isLikelySupported \in BOOLEAN
           /\ browserInfo[1].supportReason # ""
    /\ support # <<>> =>
        LET v == support[1]
            chromeOrEdge ==
                \/ Includes(ua.name, Chrome) \/ Includes(ua.name, Chromium)
                \/ Includes(ua.name, Edge) \/ Includes(ua.name, Edg)
            firefox == Includes(ua.name, Firefox)
            safari == Includes(ua.name, Safari)
        IN  /\ DOMAIN v = {"isLikelySupported", "supportReason"}
            /\ v.isLikelySupported \in BOOLEAN
            /\ v.supportReason # ""
            /\ (~chromeOrEdge /\ firefox) =>
                   /\ ~v.isLikelySupported
                   /\ v.supportReason = "Firefox support is in prototyping stage"
            /\ (~chromeOrEdge /\ ~firefox /\ safari) =>
                   /\ ~v.isLikelySupported
                   /\ v.supportReason = "Safari does not support LNA"
            /\ (~chromeOrEdge /\ ~firefox /\ ~safari) =>
                   /\ ~v.isLikelySupported
                   /\ v.supportReason = Str(ua.name)
                          \o " support unknown. Try Chrome 142+ or Edge 143+"

\* C4 witness: an unrecognized browser has been classified.
C4_Witness ==
    /\ support # <<>>
    /\ ua.name = Opera
    /\ support[1].supportReason
           = "Opera support unknown. Try Chrome 142+ or Edge 143+"

(***************************************************************************)
(* Claims about queryLNAPermission, under SpecPermission                   *)
(***************************************************************************)
\* the values queryLNAPermission has returned and refresh has not consumed yet
Returned(settled) ==
    {queries[i] : i \in {j \in 1..Len(queries) :
                            /\ queries[j].pc = "resume"
                            /\ queries[j].settled = settled}}

\* C5: without the permission-query capability queryLNAPermission returns
\* state "denied", isSupported FALSE and the reason "Permissions API not
\* available", whether the context is secure or not, and carries the
\* secure-context flag and the classifier's verdict.
C5_CapabilityAbsent ==
    LET expected ==
            [state |-> "denied",
             isSecureContext |-> isSecureContext,
             browserSupport |-> [isSupported |-> FALSE,
                                 reason |-> "Permissions API not available",
                                 browserInfo |-> getBrowserInfo(ua)]]
    IN  ~hasPermissions =>
            /\ \A i \in 1..Len(queries) :
                   /\ queries[i].pc = "resume"
                   /\ queries[i].completion = Return(expected)
            /\ permissionStatus \in {<<>>, <<expected>>}

\* C5 witness: the capability is absent, the context is not secure, and the
\* hook holds the snapshot queryLNAPermission returned.
C5_Witness ==
    /\ ~hasPermissions
    /\ ~isSecureContext
    /\ permissionStatus # <<>>
    /\ permissionStatus[1].state = "denied"

\* C6: when the host's permission query rejects, queryLNAPermission still
\* returns (its promise is fulfilled): state "denied", isSupported FALSE,
\* reason "local-network-access permission not recognized by browser",
\* whether the context is secure or not.
C6_QueryRejected ==
    \A q \in Returned("rejected") :
        /\ q.completion.outcome = "return"
        /\ q.completion.value.state = "denied"
        /\ q.completion.value.isSecureContext = isSecureContext
        /\ q.completion.value.browserSupport.isSupported = FALSE
        /\ q.completion.value.browserSupport.reason
               = "local-network-access permission not recognized by browser"

\* C6 witness: a query was rejected in a context that is not secure.
C6_Witness ==
    /\ ~isSecureContext
    /\ Returned("rejected") # {}

\* C7: when the host's permission query succeeds, queryLNAPermission returns
\* the state the host reported, isSupported TRUE, and no reason in a secure
\* context, "HTTPS required (not in secure context)" otherwise.
C7_QueryFulfilled ==
    \A q \in Returned("fulfilled") :
        /\ q.completion.outcome = "return"
        /\ q.completion.value.state = q.state
        /\ q.completion.value.isSecureContext = isSecureContext
        /\ q.completion.value.browserSupport.isSupported = TRUE
        /\ IF isSecureContext
           THEN "reason" \notin DOMAIN q.completion.value.browserSupport
           ELSE q.completion.value.browserSupport.reason
                    = "HTTPS required (not in secure context)"

\* C7 witness: the host reported "prompt" in a context that is not secure.
C7_Witness ==
    \E q \in Returned("fulfilled") : q.state = "prompt" /\ ~isSecureContext

(***************************************************************************)
(* Claims about useLNAFetch, under SpecFetch                               *)
(***************************************************************************)
\* C8: every sendRequest sets the status to "loading" before the outbound
\* call begins, whatever the status was, and the completion of a call moves
\* the status from "loading" to "success" or "error".  A step that adds a
\* frame is a submit; a step that removes one is a completion, and a frame
\* is removed once.
C8_PendingThenSettled ==
    [][/\ Len(requests') > Len(requests) =>
              /\ response' = [status |-> "loading"]
              /\ requests'[Len(requests')].pc = "fetch"
       /\ Len(requests') < Len(requests) =>
              /\ response.status = "loading"
              /\ response'.status \in {"success", "error"}]_vars

\* C9: at most one request is in flight at any time.
C9_AtMostOneInFlight == Len(requests) <= 1

\* C10: after submit and then clear, the call that was cleared does not
\* overwrite the idle state when it resolves: from status "idle" with a
\* call still running, no step leads to "success" or "error".
C10_ClearedStaysIdle ==
    [][(response.status = "idle" /\ requests # <<>>) =>
           response'.status \notin {"success", "error"}]_vars

(***************************************************************************)
(* Claims about the request lifecycle, C11 to C15, under SpecFetch         *)
(***************************************************************************)
\* C11: clear() sets the request outcome to Idle with no payload, whatever
\* the outcome was; called on Idle it changes nothing (status, data, error
\* and headers are the same before and after).  Of the steps of SpecFetch,
\* the clear() call is the one that leaves `requests` as it was.
C11_ClearSetsIdle ==
    [][requests' = requests =>
           /\ response'.status = "idle"
           /\ DOMAIN response' = {"status"}
           /\ response.status = "idle" => response' = response]_vars

\* C11 witness: the outcome is Idle while a call is still running, which
\* only a clear() after the submit brings about.
C11_Witness ==
    /\ response = [status |-> "idle"]
    /\ requests # <<>>

\* C12: when the fetched response has a non-2xx status, the call ends with
\* the outcome Failed whose message is exactly "HTTP <status>: <statusText>"
\* ("HTTP 404: Not Found" for a 404), and the outcome carries neither the
\* body nor the headers of that response.  The step looked at is the one in
\* which the call that fetched the response ends.
C12_HttpErrorMessage ==
    [][\A i \in 1..Len(requests) :
           (/\ requests[i].pc = "resume"
            /\ Len(requests') < Len(requests)
            /\ requests[i].fetched # <<>>
            /\ requests[i].fetched[1].status \notin 200..299)
           => LET r == requests[i].fetched[1]
              IN  /\ response' =
                         [status |-> "error",
                          error |-> "HTTP " \o ToString(r.status) \o ": "
                                        \o r.statusText]
                  /\ (r.status = 404 /\ r.statusText = "Not Found")
                         => response'.error = "HTTP 404: Not Found"]_vars

\* C12 witness: the outcome after a 404 response.
C12_Witness ==
    response = [status |-> "error", error |-> "HTTP 404: Not Found"]

\* the positions, in iteration order, of the headers of `headers` whose
\* lowercased name contains "private-network" or "access-control"
DiagnosticPositions(headers) ==
    {i \in 1..Len(headers) :
        \/ Includes(toLowerCase(headers[i][1]), PrivateNetwork)
        \/ Includes(toLowerCase(headers[i][1]), AccessControl)}

\* C13: on success the outcome's headers are exactly the response headers
\* whose lowercased name contains "private-network" or "access-control",
\* each with its value, in the order the response iterates them; every
\* other header (content-type, for one) is dropped.
C13_HeadersFiltered ==
    [][\A i \in 1..Len(requests) :
           (/\ requests[i].pc = "resume"
            /\ Len(requests') < Len(requests)
            /\ requests[i].completion.outcome = "return")
           => LET all == requests[i].fetched[1].headers
                  kept == DiagnosticPositions(all)
                  shown == response'.headers
              IN  /\ response'.status = "success"
                  /\ Len(shown) = Cardinality(kept)
                  /\ \A p \in kept :
                         LET k == Cardinality({q \in kept : q <= p})
                         IN  shown[k] = <<Str(all[p][1]), Str(all[p][2])>>
                  /\ \A k \in 1..Len(shown) :
                         shown[k][1] # Str(ContentType)]_vars

\* C13 witness: the outcome of a response that carried three headers, of
\* which content-type, the second one, was dropped.
C13_Witness ==
    /\ response.status = "success"
    /\ response.headers =
           <<<<Str(AccessControlAllowOrigin), Str(Star)>>,
             <<Str(XPrivateNetworkId), Str(TestServer)>>>>

\* the call of frame i ends in this step with a thrown value that is not
\* the "HTTP <status>" error of a non-2xx response
ThrowsOtherThanStatus(i) ==
    /\ requests[i].pc = "resume"
    /\ Len(requests') < Len(requests)
    /\ requests[i].completion.outcome = "throw"
    /\ \/ requests[i].fetched = <<>>
       \/ requests[i].fetched[1].status \in 200..299

IndicatesJson(r) ==
    \E p \in 1..Len(r.headers) :
        /\ toLowerCase(r.headers[p][1]) = ContentType
        /\ Includes(r.headers[p][2], ApplicationJson)

\* C15: the body of a 2xx response is decoded as JSON when the content-type
\* header indicates application/json and as raw text otherwise, a missing
\* header included; the decoded value is the body of the Succeeded outcome,
\* and a call whose decoding failed ends Failed, never Succeeded.
C15_BodyDecoding ==
    [][\A i \in 1..Len(requests) :
           LET frame == requests[i]
               r == frame.fetched[1]
               decoder == IF IndicatesJson(r) THEN "json" ELSE "text"
           IN  /\ frame.pc \in {"json", "text"} => frame.pc = decoder
               /\ (/\ frame.pc = "resume"
                   /\ Len(requests') < Len(requests)
                   /\ frame.fetched # <<>>
                   /\ r.status \in 200..299)
                  => IF frame.completion.outcome = "return"
                     THEN /\ response'.status = "success"
                          /\ response'.data =
                                 [decoded |-> decoder, text |-> r.body.text]
                          /\ decoder = "json" => r.body.json
                     ELSE /\ response'.status = "error"
                          /\ "data" \notin DOMAIN response']_vars

\* C15 witness: the Succeeded outcome of a response whose content type was
\* "application/json; charset=utf-8" and whose body was decoded as JSON.
C15_Witness ==
    /\ response.status = "success"
    /\ response.data.decoded = "json"

C17_NoneOmitsParameter ==
    [][(HandleSubmit /\ addressSpace = "none") =>
           "targetAddressSpace" \notin
               DOMAIN requests'[Len(requests')].call.init]_vars

(***************************************************************************)
(* Claims about both lifecycles, C18 and C20, under SpecHome               *)
(***************************************************************************)
\* C18: nothing is thrown past a lifecycle: the promises that sendRequest
\* and refresh return are never rejected, whatever the fetch, the body
\* decoding or the permission query did, and every failure ends as a state
\* value: a missing capability or a rejected query as a snapshot with state
\* "denied", a failure of the status reader itself as the null snapshot, a
\* non-2xx status, a transport error or a decoding error as the outcome
\* Failed.
C18_FailuresBecomeState ==
    [][/\ \A p \in promises' : p[2] = "fulfilled"
       /\ \A i \in 1..Len(queries) :
              (queries[i].pc = "resume" /\ Len(queries') < Len(queries))
              => /\ <<"refresh", "fulfilled">> \in promises'
                 /\ queries[i].completion.outcome = "throw"
                        => permissionStatus' = <<>>
                 /\ queries[i].settled \in {"absent", "rejected"}
                        => /\ permissionStatus' # <<>>
                           /\ permissionStatus'[1].state = "denied"
       /\ \A i \in 1..Len(requests) :
              (requests[i].pc = "resume" /\ Len(requests') < Len(requests))
              => /\ <<"sendRequest", "fulfilled">> \in promises'
                 /\ (\/ requests[i].completion.outcome = "throw"
                     \/ requests[i].fetched = <<>>
                     \/ requests[i].fetched[1].status \notin 200..299)
                        => response'.status = "error"]_vars

\* C18 witness: on a host without the Permissions API a refresh has ended
\* with a "denied" snapshot, a request has ended Failed, and both promises
\* were fulfilled.
C18_Witness ==
    /\ ~hasPermissions
    /\ promises = {<<"refresh", "fulfilled">>, <<"sendRequest", "fulfilled">>}
    /\ permissionStatus # <<>>
    /\ permissionStatus[1].state = "denied"
    /\ response.status = "error"

(***************************************************************************)
(* Claims about overlapping requests, C19, under SpecFetch                 *)
(***************************************************************************)
\* C19: when submissions overlap, the call that completes last wins: the
\* step in which a call ends sets the displayed outcome to that call's
\* result, whether or not a call submitted later is still running, and
\* between the ends of calls only a submit or a clear changes the outcome.
\* So once both calls have ended, with no submit or clear since, the
\* outcome shown is the result of the one that ended last.
C19_LastCompletionWins ==
    [][/\ \A i \in 1..Len(requests) :
              (requests[i].pc = "resume" /\ Len(requests') < Len(requests))
              => LET c == requests[i].completion
                 IN  IF c.outcome = "return"
                     THEN response' = [status |-> "success",
                                       data |-> c.value.data,
                                       headers |-> c.value.headers]
                     ELSE /\ response'.status = "error"
                          /\ c.error.isError
                                 => response'.error = c.error.message
       /\ (Len(requests') = Len(requests) /\ requests' # requests)
              => response' = response]_vars

\* C19 witness: one of two overlapping calls has ended and its result is
\* displayed, and the other one is about to end.
C19_Witness ==
    /\ Len(requests) = 1
    /\ requests[1].pc = "resume"
    /\ response.status \in {"success", "error"}

\* the number of calls of a sequence of frames that wait for the host
Waiting(frames, pc) == Cardinality({i \in 1..Len(frames) : frames[i].pc = pc})

\* C20: each submit issues exactly one GET and each refresh at most one
\* permission query (none when the Permissions API is absent); no call is
\* issued again after a failure: a frame has issued one host call for each
\* invocation that reached the call, and the number of calls waiting for
\* the host grows only in the step of a submit or of a refresh, by one.
C20_OneCallPerInvocation ==
    [][/\ \A i \in 1..Len(requests') :
              /\ requests'[i].calls = 1
              /\ requests'[i].pc = "fetch" =>
                     requests'[i].call.init.method = "GET"
       /\ \A i \in 1..Len(queries') :
              queries'[i].calls =
                  IF queries'[i].pc = "query"
                         \/ queries'[i].settled # "absent"
                  THEN 1 ELSE 0
       /\ Waiting(requests', "fetch") > Waiting(requests, "fetch")
              => /\ Len(requests') = Len(requests) + 1
                 /\ Waiting(requests', "fetch") = Waiting(requests, "fetch") + 1
                 /\ response' = [status |-> "loading"]
       /\ Waiting(queries', "query") > Waiting(queries, "query")
              => /\ Len(queries') = Len(queries) + 1
                 /\ Waiting(queries', "query") = Waiting(queries, "query") + 1
                 /\ isLoading'
       /\ \A i \in 1..Len(requests) :
              (requests[i].pc = "resume" /\ Len(requests') < Len(requests))
              => Waiting(requests', "fetch") = Waiting(requests, "fetch")
       /\ \A i \in 1..Len(queries) :
              (queries[i].pc = "resume" /\ Len(queries') < Len(queries))
              => Waiting(queries', "query") = Waiting(queries, "query")]_vars

\* C20 witness: a request whose fetch was rejected has ended Failed, a
\* refresh has ended, and no call is waiting for the host.
C20_Witness ==
    /\ response = [status |-> "error", error |-> "Failed to fetch"]
    /\ requests = <<>>
    /\ mounted
    /\ queries = <<>>
    /\ permissionStatus # <<>>

(***************************************************************************)
(* Claims about termination, C21, under SpecFormFair                       *)
(***************************************************************************)
\* C21: on a host whose fetch and body promises settle, and with no submit
\* or clear after it (the form allows none while a request is pending), a
\* submit does not leave the outcome at loading forever: whenever the
\* outcome is loading, it is Succeeded or Failed at some later time.
C21_PendingEnds ==
    (response.status = "loading") ~> (response.status \in {"success", "error"})

\* C21 witness: a submitted request has ended, here with the decoding error
\* of a body that was not JSON, and nothing is pending.
C21_Witness ==
    /\ response = [status |-> "error", error |-> JsonSyntaxError.message]
    /\ requests = <<>>

(***************************************************************************)
(* Claims about the shape of the outcome, C22, under SpecFetch             *)
(***************************************************************************)
\* C22: the request outcome is always a well-formed tagged value: idle and
\* loading have no data, headers or error; success has data and headers
\* and no error; error has a message and no data or headers.  Nothing of
\* an earlier outcome is left in it.
C22_OutcomeWellFormed ==
    /\ response.status \in {"idle", "loading", "success", "error"}
    /\ response.status \in {"idle", "loading"} => DOMAIN response = {"status"}
    /\ response.status = "success" =>
           DOMAIN response = {"status", "data", "headers"}
    /\ response.status = "error" =>
           /\ DOMAIN response = {"status", "error"}
           /\ response.error \in STRING

\* C22 witness: a call has ended, so that an outcome with a payload was
\* set, and the outcome is now loading with another call running.
C22_Witness ==
    /\ promises # {}
    /\ response = [status |-> "loading"]
    /\ requests # <<>>

(***************************************************************************)
(* Claims about the page, C23, under SpecHome                              *)
(***************************************************************************)
\* C23: the two state slots are independent.  A step of the request
\* lifecycle (a submit, a clear, an answer of the host to a fetch, the end
\* of a call) leaves the permission snapshot, its isLoading flag and the
\* running refreshes as they are; a step of the permission lifecycle (the
\* mount, a refresh, an answer to a permission query, the end of a
\* refresh) leaves the request outcome and the running requests as they
\* are.
C23_SlotsIndependent ==
    [][/\ (response' # response \/ requests' # requests)
              => UNCHANGED <<permissionStatus, isLoading, queries, mounted>>
       /\ (queries' # queries \/ mounted' # mounted
               \/ permissionStatus' # permissionStatus
               \/ isLoading' # isLoading)
              => UNCHANGED <<response, requests>>]_vars

\* C23 witness: a refresh is about to end while a request is pending.
C23_Witness ==
    /\ response = [status |-> "loading"]
    /\ requests # <<>>
    /\ queries # <<>>
    /\ queries[1].pc = "resume"

(***************************************************************************)
(* Claims about the permission hook, C24 and C26, under SpecPermission     *)
(***************************************************************************)
\* C24: the permission hook starts with the null snapshot and isLoading
\* true; a refresh sets isLoading true; the end of a refresh sets isLoading
\* false and replaces the snapshot by the value queryLNAPermission returned,
\* or by null if it threw; and isLoading is true whenever a permission
\* query is in flight.
C24_LoadingWhileQuerying ==
    [][/\ ~mounted => (permissionStatus = <<>> /\ isLoading /\ queries = <<>>)
       /\ Len(queries') > Len(queries) => isLoading'
       /\ \A i \in 1..Len(queries) :
              (queries[i].pc = "resume" /\ Len(queries') < Len(queries))
              => /\ ~isLoading'
                 /\ permissionStatus' =
                        IF queries[i].completion.outcome = "return"
                        THEN <<queries[i].completion.value>>
                        ELSE <<>>
       /\ (\E i \in 1..Len(queries') : queries'[i].pc = "query")
              => isLoading']_vars

\* the snapshots queryLNAPermission has returned: those of the refreshes
\* about to end and the one the hook holds
ReturnedSnapshots ==
    {queries[i].completion.value :
         i \in {j \in 1..Len(queries) :
                    /\ queries[j].pc = "resume"
                    /\ queries[j].completion.outcome = "return"}}
        \cup {permissionStatus[k] : k \in 1..Len(permissionStatus)}

\* C26: every snapshot queryLNAPermission returns has: isSupported FALSE
\* only with state "denied" and one of the two capability-failure reasons;
\* isSupported TRUE with no reason exactly when the context is secure; and
\* the classifier's verdict and the secure-context flag of the host.
C26_SnapshotShape ==
    \A s \in ReturnedSnapshots :
        LET b == s.browserSupport
        IN  /\ ~b.isSupported =>
                   /\ s.state = "denied"
                   /\ "reason" \in DOMAIN b
                   /\ b.reason \in
                          {"Permissions API not available",
                           "local-network-access permission not recognized by browser"}
            /\ b.isSupported =>
                   ("reason" \notin DOMAIN b <=> s.isSecureContext)
            /\ b.browserInfo = getBrowserInfo(ua)
            /\ s.isSecureContext = isSecureContext
            /\ s.state \in PermissionStates

\* C26 witness: in a context that is not secure the hook holds a snapshot
\* of a query the host answered: supported, with the HTTPS reason.
C26_Witness ==
    /\ ~isSecureContext
    /\ permissionStatus # <<>>
    /\ permissionStatus[1].browserSupport.isSupported
    /\ permissionStatus[1].browserSupport.reason =
           "HTTPS required (not in secure context)"

(***************************************************************************)
(* Claims about the request form, C25, under SpecForm                      *)
(***************************************************************************)
\* C25: with the request form as the only caller of the fetch hook, no
\* submit and no clear happens while a request is pending, a submit passes
\* a trimmed URL that is not empty, at most one request is in flight, and
\* the end of every call finds the status still loading.
C25_FormSerialisesRequests ==
    [][/\ Len(requests) <= 1
       /\ requests # <<>> <=> response.status = "loading"
       /\ response.status = "loading" =>
              /\ Len(requests') <= Len(requests)
              /\ response'.status # "idle"
              /\ UNCHANGED <<url, addressSpace>>
       /\ Len(requests') > Len(requests) =>
              LET sent == requests'[Len(requests')].call.url
              IN  /\ sent = Str(trim(url))
                  /\ trim(url) # <<>>
                  /\ sent # ""
       /\ \A i \in 1..Len(requests) :
              (requests[i].pc = "resume" /\ Len(requests') < Len(requests))
              => /\ response.status = "loading"
                 /\ response'.status \in {"success", "error"}]_vars

\* C25 witness: the call of a submitted form is about to end, the status
\* is loading and it is the only call.
C25_Witness ==
    /\ Len(requests) = 1
    /\ requests[1].pc = "resume"
    /\ response = [status |-> "loading"]
    /\ trim(url) # <<>>

=============================================================================
